---------------------------- MODULE Spec2Model ----------------------------
(***************************************************************************)
(* LR wrapper induction (supervised_single_entry_lr_wrapper.py).           *)
(*                                                                         *)
(* A Python string is a sequence of one-character strings.  Attribute      *)
(* indices k are 0-based as in the source; TLA+ sequences are 1-based, so   *)
(* labels[i][k] of the source is lb[i][k+1] here.  A Python set of strings  *)
(* is a TLA+ set; iterating it (for u in set, min(set, key=len)) visits the *)
(* elements in an order the hash seed decides, so the element such a loop   *)
(* stops at is a nondeterministic choice.                                   *)
(***************************************************************************)
EXTENDS Integers, Sequences, FiniteSets

\* ---------------------------------------------------------------- bounds
\* total number of characters over the training documents of one corpus
MaxTotalLen == 2
\* number of training documents of one corpus
MaxDocs == 2
\* number of attributes per training document
MaxAttrs == 2
\* length of a page handed to execLR
MaxPageLen == 2
\* length of the strings handed to ProperSuffix on its own
MaxStrLen == 3

Alphabet == {"a", "b"}

\* ------------------------------------------------------- Python strings
Strs(n) == UNION {[1..m -> Alphabet] : m \in 0..n}

\* a slice bound as Python normalises it for a string of length n
PyIndex(x, n) ==
    IF x < 0 THEN (IF x + n < 0 THEN 0 ELSE x + n)
             ELSE (IF x > n THEN n ELSE x)

\* s[lo:hi]
Slice(s, lo, hi) ==
    LET a == PyIndex(lo, Len(s))
        b == PyIndex(hi, Len(s))
    IN  IF a >= b THEN <<>> ELSE SubSeq(s, a + 1, b)

\* s[lo:]
SliceFrom(s, lo) == Slice(s, lo, Len(s))

\* s[:hi]
SliceTo(s, hi) == Slice(s, 0, hi)

\* the offsets at which u occurs in s
Occurrences(u, s) ==
    {i \in 0..(Len(s) - Len(u)) : SubSeq(s, i + 1, i + Len(u)) = u}

\* u in s
Contains(u, s) == Occurrences(u, s) # {}

\* s.find(u)
Find(s, u) ==
    LET occ == Occurrences(u, s)
    IN  IF occ = {} THEN -1 ELSE CHOOSE i \in occ : \A j \in occ : i <= j

\* s.endswith(u)
EndsWith(s, u) ==
    Len(u) <= Len(s) /\ SubSeq(s, Len(s) - Len(u) + 1, Len(s)) = u

\* s.startswith(u)
StartsWith(s, u) ==
    Len(u) <= Len(s) /\ SubSeq(s, 1, Len(u)) = u

\* ProperSuffix(u, s): s.endswith(u) and u not in s[:-len(u)]
ProperSuffix(u, s) ==
    EndsWith(s, u) /\ ~Contains(u, SliceTo(s, 0 - Len(u)))

\* ------------------------------------------------------ text windows
\* ex: self.examples, lb: self.labels, n: self.num_attributes

example_heads(ex, lb) ==
    {SliceTo(ex[i], lb[i][1][1]) : i \in DOMAIN ex}

example_tails(ex, lb) ==
    {SliceFrom(ex[i], lb[i][Len(lb[i])][2]) : i \in DOMAIN ex}

Seps(ex, lb, n, k) ==
    IF k = n - 1 THEN {}
    ELSE {Slice(ex[i], lb[i][k + 1][2], lb[i][k + 2][1]) : i \in DOMAIN ex}

attributes(ex, lb, k) ==
    {Slice(ex[i], lb[i][k + 1][1], lb[i][k + 1][2]) : i \in DOMAIN ex}

LeftNeighbors(ex, lb, n, k) ==
    IF k = 0 THEN Seps(ex, lb, n, n - 1) \cup example_heads(ex, lb)
    ELSE Seps(ex, lb, n, k - 1)

RightNeighbors(ex, lb, n, k) ==
    IF k = n - 1 THEN Seps(ex, lb, n, n - 1) \cup example_tails(ex, lb)
    ELSE Seps(ex, lb, n, k)

\* the values min(neighbors, key=len) can return
Shortest(neighbors) ==
    {s \in neighbors : \A t \in neighbors : Len(s) <= Len(t)}

\* {shortest[i:] for i in range(len(shortest))}
SuffixSet(shortest) ==
    {SliceFrom(shortest, i) : i \in 0..(Len(shortest) - 1)}

\* {shortest[:i] for i in range(len(shortest))}
PrefixSet(shortest) ==
    {SliceTo(shortest, i) : i \in 0..(Len(shortest) - 1)}

\* the candidate sets LeftCandidates(k) can return, one per shortest neighbor
LeftCandidates(ex, lb, n, k) ==
    {SuffixSet(s) : s \in Shortest(LeftNeighbors(ex, lb, n, k))}

RightCandidates(ex, lb, n, k) ==
    {PrefixSet(s) : s \in Shortest(RightNeighbors(ex, lb, n, k))}

\* IsValidLeft without its check of the tails for the first attribute
IsValidLeftNoTail(ex, lb, n, u, k) ==
    \A s \in LeftNeighbors(ex, lb, n, k) : ProperSuffix(u, s)

IsValidLeft(ex, lb, n, u, k) ==
    /\ \A s \in LeftNeighbors(ex, lb, n, k) : ProperSuffix(u, s)
    /\ k = 0 => \A s \in example_tails(ex, lb) : ~Contains(u, s)

IsValidRight(ex, lb, n, u, k) ==
    /\ \A s \in attributes(ex, lb, k) : ~Contains(u, s)
    /\ \A s \in RightNeighbors(ex, lb, n, k) : StartsWith(s, u)

\* the values the loop body of GetValidLeft can leave in self.left[k]:
\* the first valid candidate in the set's iteration order, '' when none is
LeftChoices(ex, lb, n, k) ==
    UNION {
        LET valid == {u \in c : IsValidLeft(ex, lb, n, u, k)}
        IN  IF valid = {} THEN {<<>>} ELSE valid
        : c \in LeftCandidates(ex, lb, n, k)}

RightChoices(ex, lb, n, k) ==
    UNION {
        LET valid == {u \in c : IsValidRight(ex, lb, n, u, k)}
        IN  IF valid = {} THEN {<<>>} ELSE valid
        : c \in RightCandidates(ex, lb, n, k)}

\* the tables GetValidLeft / GetValidRight can produce
GetValidLeft(ex, lb, n) ==
    {t \in [1..n -> UNION {LeftChoices(ex, lb, n, k) : k \in 0..(n - 1)}] :
        \A k \in 0..(n - 1) : t[k + 1] \in LeftChoices(ex, lb, n, k)}

GetValidRight(ex, lb, n) ==
    {t \in [1..n -> UNION {RightChoices(ex, lb, n, k) : k \in 0..(n - 1)}] :
        \A k \in 0..(n - 1) : t[k + 1] \in RightChoices(ex, lb, n, k)}


\* ------------------------------------------------------------ execLR
\* the loop body of execLR moving the page past the right delimiter it found
ExecStepPastRight(P, l, r) ==
    LET l_find == Find(P, l)
        l_idx  == l_find + Len(l)
        r_find == Find(SliceFrom(P, l_idx), r)
        r_idx  == r_find + l_idx
    IN  [P |-> P, l_find |-> l_find, r_find |-> r_find,
         l_idx |-> l_idx, r_idx |-> r_idx,
         value |-> Slice(P, l_idx, r_idx),
         rest |-> SliceFrom(P, r_idx + Len(r))]

\* one iteration of the loop of execLR on the remaining page P, with the
\* values of its locals
ExecStep(P, l, r) ==
    LET l_find == Find(P, l)
        l_idx  == l_find + Len(l)
        r_find == Find(SliceFrom(P, l_idx), r)
        r_idx  == r_find + l_idx
    IN  [P |-> P, l_find |-> l_find, r_find |-> r_find,
         l_idx |-> l_idx, r_idx |-> r_idx,
         value |-> Slice(P, l_idx, r_idx),
         rest |-> SliceFrom(P, r_idx)]

\* the iterations of  for (l, r) in zip(self.left, self.right)  from pair k on
RECURSIVE ExecTrace(_, _, _, _)
ExecTrace(l, r, P, k) ==
    IF k > Len(l) \/ k > Len(r) THEN <<>>
    ELSE LET st == ExecStep(P, l[k], r[k])
         IN  <<st>> \o ExecTrace(l, r, st.rest, k + 1)

\* the list execLR returns
execLR(l, r, P) ==
    LET tr == ExecTrace(l, r, P, 1)
    IN  [k \in 1..Len(tr) |-> tr[k].value]

\* ------------------------------------------------------------ inputs
\* the label lists of K spans (start, end) of a document of length L, sorted
\* ascending and non-overlapping, the first starting at lo or later
RECURSIVE SpansFrom(_, _, _)
SpansFrom(lo, L, K) ==
    IF K = 0 THEN {<<>>}
    ELSE UNION {
           UNION {
             {<<(<<s, e>>)>> \o rest : rest \in SpansFrom(e, L, K - 1)}
             : e \in s..L}
           : s \in lo..L}

Spans(L, K) == SpansFrom(0, L, K)

\* the corpora of n documents with K spans each and at most budget characters
RECURSIVE CorporaOf(_, _, _)
CorporaOf(n, budget, K) ==
    IF n = 0 THEN {[files |-> <<>>, labels |-> <<>>]}
    ELSE UNION {
           {[files |-> <<d>> \o c.files, labels |-> <<sp>> \o c.labels] :
               sp \in Spans(Len(d), K), c \in CorporaOf(n - 1, budget - Len(d), K)}
           : d \in Strs(budget)}

\* the well-formed corpora of n documents with K attributes
Corpora(n, K) == CorporaOf(n, MaxTotalLen, K)

\* the two training documents and the page of the end-to-end scenario
ScenarioAlice == <<"N", "a", "m", "e", ":", " ", "A", "l", "i", "c", "e", " ", "A", "g", "e", ":", " ", "3", "0">>
ScenarioBob == <<"N", "a", "m", "e", ":", " ", "B", "o", "b", " ", "A", "g", "e", ":", " ", "4", "5">>
ScenarioCarol == <<"N", "a", "m", "e", ":", " ", "C", "a", "r", "o", "l", " ", "A", "g", "e", ":", " ", "2", "2">>
ScenarioCorpus ==
    [files |-> <<ScenarioAlice, ScenarioBob>>,
     labels |-> << <<(<<6, 11>>), (<<17, 19>>)>>, <<(<<6, 9>>), (<<15, 17>>)>> >>]

\* calls with an empty label sequence, with and without documents to load
EmptyLabelInputs ==
    {[files |-> f, labels |-> <<>>] :
        f \in {<<>>} \cup {<<d>> : d \in Strs(MaxTotalLen)}}

\* ------------------------------------------------------------- state
VARIABLES
    pc,             \* "new", "built" (constructor returned), "failed" (it raised)
    assigned,       \* the attributes of self that were assigned
    files,          \* the text at examples_file_paths
    labels,         \* self.labels
    examples,       \* self.examples
    num_attributes, \* self.num_attributes
    left,           \* self.left
    right,          \* self.right
    ran,            \* execLR was called on this wrapper
    page,           \* the argument P of the last call of execLR
    steps,          \* the locals of each iteration of that call
    attr,           \* the list that call returned
    ps_u, ps_s,     \* the arguments of a call of ProperSuffix
    ps_done, ps_out \* that call returned, and what

vars == <<pc, assigned, files, labels, examples, num_attributes, left, right,
          ran, page, steps, attr, ps_u, ps_s, ps_done, ps_out>>

wrapperVars == <<pc, assigned, files, labels, examples, num_attributes, left, right>>
callVars == <<ran, page, steps, attr>>
psVars == <<ps_u, ps_s, ps_done, ps_out>>

Init ==
    /\ pc = "new"
    /\ assigned = {}
    /\ files = <<>>
    /\ labels = <<>>
    /\ examples = <<>>
    /\ num_attributes = 0
    /\ left = <<>>
    /\ right = <<>>
    /\ ran = FALSE
    /\ page = <<>>
    /\ steps = <<>>
    /\ attr = <<>>
    /\ ps_u = <<>>
    /\ ps_s = <<>>
    /\ ps_done = FALSE
    /\ ps_out = FALSE

\* self had the check of the labels come after the loading of the documents
RaiseAfterLoading(f, lb) ==
    [assigned |-> {"labels", "examples"}, examples |-> f]

\* self when __init__ raises ValueError("No training examples provided")
ConstructorRaise(f, lb) ==
    [assigned |-> {"labels"}, examples |-> <<>>]

\* SingleEntryLRWrapper(examples_file_paths, labels), the files at the paths
\* holding in.files and labels being in.labels
ConstructWith(in) ==
    /\ pc = "new"
    /\ files' = in.files
    /\ labels' = in.labels
    /\ IF Len(in.labels) = 0
       THEN /\ pc' = "failed"
            /\ assigned' = ConstructorRaise(in.files, in.labels).assigned
            /\ examples' = ConstructorRaise(in.files, in.labels).examples
            /\ UNCHANGED <<num_attributes, left, right>>
       ELSE LET n == Len(in.labels[1])
            IN  /\ pc' = "built"
                /\ assigned' = {"labels", "examples", "num_attributes", "left", "right"}
                /\ examples' = in.files
                /\ num_attributes' = n
                /\ left' \in GetValidLeft(in.files, in.labels, n)
                /\ right' \in GetValidRight(in.files, in.labels, n)
    /\ UNCHANGED callVars
    /\ UNCHANGED psVars

\* the pages execLR is called on: short pages, the scenario's page, and the
\* training documents themselves
ShortPages == Strs(MaxPageLen)

Pages == ShortPages \cup {ScenarioCarol} \cup {examples[i] : i \in DOMAIN examples}

\* execLR dropping from self.left the delimiter of the attribute it extracted
ExecLRConsuming ==
    /\ pc = "built"
    /\ \E P \in Pages :
        /\ ran => P = page
        /\ page' = P
        /\ steps' = ExecTrace(left, right, P, 1)
        /\ attr' = [k \in 1..Len(steps') |-> steps'[k].value]
    /\ ran' = TRUE
    /\ left' = [k \in 1..Len(left) |-> IF k = 1 THEN <<>> ELSE left[k]]
    /\ UNCHANGED <<pc, assigned, files, labels, examples, num_attributes, right>>
    /\ UNCHANGED psVars

\* wrapper.execLR(P).  A call leaves its record in page, steps and attr, which
\* the next call overwrites; after the first call the model follows the
\* repeated calls on that same page.
ExecLR ==
    /\ pc = "built"
    /\ \E P \in Pages :
        /\ ran => P = page
        /\ page' = P
        /\ steps' = ExecTrace(left, right, P, 1)
        /\ attr' = [k \in 1..Len(steps') |-> steps'[k].value]
    /\ ran' = TRUE
    /\ UNCHANGED wrapperVars
    /\ UNCHANGED psVars

\* the calls of the constructor the model makes: on every well-formed corpus
\* within the bounds, on the scenario's corpus, and with no labels at all
Construct ==
    /\ pc = "new"
    /\ \/ \E n \in 1..MaxDocs, K \in 0..MaxAttrs :
            \E in \in Corpora(n, K) : ConstructWith(in)
       \/ ConstructWith(ScenarioCorpus)
       \/ \E in \in EmptyLabelInputs : ConstructWith(in)

Next == Construct \/ ExecLR

Spec == Init /\ [][Next]_vars

\* ------------------------------------------- ProperSuffix on its own
InitPS ==
    /\ pc = "fn"
    /\ assigned = {}
    /\ files = <<>>
    /\ labels = <<>>
    /\ examples = <<>>
    /\ num_attributes = 0
    /\ left = <<>>
    /\ right = <<>>
    /\ ran = FALSE
    /\ page = <<>>
    /\ steps = <<>>
    /\ attr = <<>>
    /\ ps_u \in Strs(MaxStrLen)
    /\ ps_s \in Strs(MaxStrLen)
    /\ ps_done = FALSE
    /\ ps_out = FALSE

\* ProperSuffix(u, s)
CallProperSuffix ==
    /\ pc = "fn"
    /\ ~ps_done
    /\ ps_out' = ProperSuffix(ps_u, ps_s)
    /\ ps_done' = TRUE
    /\ UNCHANGED <<ps_u, ps_s>>
    /\ UNCHANGED wrapperVars
    /\ UNCHANGED callVars

NextPS == CallProperSuffix

SpecPS == InitPS /\ [][NextPS]_vars


\* ========================================================== properties
\* the training text around attribute k (0-based) of training document i,
\* read off the document and its spans

ValueText(i, k) ==
    SubSeq(examples[i], labels[i][k + 1][1] + 1, labels[i][k + 1][2])

LeftNeighborText(i, k) ==
    IF k = 0 THEN SubSeq(examples[i], 1, labels[i][1][1])
    ELSE SubSeq(examples[i], labels[i][k][2] + 1, labels[i][k + 1][1])

RightNeighborText(i, k) ==
    IF k = num_attributes - 1
    THEN SubSeq(examples[i], labels[i][k + 1][2] + 1, Len(examples[i]))
    ELSE SubSeq(examples[i], labels[i][k + 1][2] + 1, labels[i][k + 2][1])

TailText(i) ==
    SubSeq(examples[i], labels[i][num_attributes][2] + 1, Len(examples[i]))

\* C1: called on a training document, execLR returns for every attribute k
\* exactly the text of that document's span k.
C1_RoundTrip ==
    (pc = "built" /\ ran) =>
        \A i \in DOMAIN examples :
            page = examples[i] =>
                \A k \in 0..(num_attributes - 1) : attr[k + 1] = ValueText(i, k)

ScenarioLeft == <<<<"N", "a", "m", "e", ":", " ">>, <<":", " ">>>>
ScenarioRight == <<<<" ", "A", "g", "e">>, <<>> >>
ScenarioValues == <<<<"C", "a", "r", "o", "l">>, <<"2", "2">>>>

\* C2: from the scenario's two documents the constructor learns
\* left = ["Name: ", ": "] and right = [" Age", ""], and execLR on
\* "Name: Carol Age: 22" then returns ["Carol", "22"].
C2_Scenario ==
    (pc = "built" /\ examples = ScenarioCorpus.files /\ labels = ScenarioCorpus.labels) =>
        /\ left = ScenarioLeft
        /\ right = ScenarioRight
        /\ (ran /\ page = ScenarioCarol) => attr = ScenarioValues

\* iteration k of the last call did not find left[k] or right[k] in the part
\* of the page it searched
Missed(k) == steps[k].l_find = -1 \/ steps[k].r_find = -1

\* C3: when left[k] or right[k] is not found, the result for attribute k is a
\* miss indicator and not a substring of the page, and every attribute still
\* has a result.
C3_MissIsExplicit ==
    (pc = "built" /\ ran) =>
        /\ Len(attr) = num_attributes
        /\ \A k \in 1..Len(steps) : Missed(k) => ~Contains(attr[k], page)

\* C4: a constructor call with an empty label sequence fails, having read no
\* document and created no delimiter table.
C4_EmptyLabelsFail ==
    (pc \in {"built", "failed"} /\ Len(labels) = 0) =>
        /\ pc = "failed"
        /\ examples = <<>>
        /\ assigned \cap {"examples", "num_attributes", "left", "right"} = {}
        /\ left = <<>> /\ right = <<>>

C4_Witness == pc = "failed" /\ Len(labels) = 0 /\ Len(files) > 0

\* C5: a call of execLR leaves left and right as they were, and a repeated
\* call on the same page returns the same list.
C5_ExtractionIsPure ==
    [][pc = "built" =>
        /\ left' = left
        /\ right' = right
        /\ (ran /\ page' = page) => attr' = attr]_vars

C5_Witness ==
    /\ pc = "built" /\ ran
    /\ \E k \in 1..Len(steps) : Missed(k)
    /\ \E k \in 1..Len(left) : left[k] # <<>>

\* C6: ProperSuffix(u, s) is true exactly when s ends with u and the only
\* occurrence of u in s is the one at len(s) - len(u).
C6_ProperSuffixIff ==
    ps_done =>
        (ps_out <=> (/\ EndsWith(ps_s, ps_u)
                     /\ Occurrences(ps_u, ps_s) = {Len(ps_s) - Len(ps_u)}))

LeftOK(u, k) ==
    /\ \A i \in DOMAIN examples : ProperSuffix(u, LeftNeighborText(i, k))
    /\ k = 0 => \A i \in DOMAIN examples : ~Contains(u, TailText(i))

RightOK(u, k) ==
    /\ \A i \in DOMAIN examples : StartsWith(RightNeighborText(i, k), u)
    /\ \A i \in DOMAIN examples : ~Contains(u, ValueText(i, k))

C8_LongestValidLeft ==
    pc = "built" =>
        \A k \in 0..(num_attributes - 1) :
            \A c \in LeftCandidates(examples, labels, num_attributes, k) :
                \A u \in c :
                    IsValidLeft(examples, labels, num_attributes, u, k) =>
                        /\ left[k + 1] # <<>>
                        /\ Len(u) <= Len(left[k + 1])

AllSuffixes(s) == {SubSeq(s, i + 1, Len(s)) : i \in 0..Len(s)}
AllPrefixes(s) == {SubSeq(s, 1, i) : i \in 0..Len(s)}

\* C9: LeftCandidates(k) is the set of all suffixes of the shortest
\* left-neighbor string, the empty one and the whole string included, and
\* RightCandidates(k) the set of all prefixes of the shortest right-neighbor
\* string, the empty one and the whole string included.
C9_CandidatesComplete ==
    pc = "built" =>
        \A k \in 0..(num_attributes - 1) :
            /\ LeftCandidates(examples, labels, num_attributes, k) =
                 {AllSuffixes(s) :
                     s \in Shortest(LeftNeighbors(examples, labels, num_attributes, k))}
            /\ RightCandidates(examples, labels, num_attributes, k) =
                 {AllPrefixes(s) :
                     s \in Shortest(RightNeighbors(examples, labels, num_attributes, k))}

\* the cursor into the page before and after iteration k of the last call
CursorBefore(k) == Len(page) - Len(steps[k].P)
CursorAfter(k) == Len(page) - Len(steps[k].rest)

\* the offset of the first occurrence of u in s at offset c or later
FirstAtOrAfter(u, s, c) ==
    CHOOSE i \in Occurrences(u, s) :
        i >= c /\ \A j \in Occurrences(u, s) : j >= c => i <= j

AllFound == \A k \in 1..Len(steps) : ~Missed(k)

\* C10: when every delimiter is found, execLR returns num_attributes values;
\* value k is the page from just after the first left[k] at or after the
\* cursor to just before the first right[k] at or after that start; the
\* cursor then stands at that right[k]; it never moves backwards and the
\* values' ranges are disjoint and ascending.
C10_TwoPointer ==
    (pc = "built" /\ ran /\ AllFound) =>
        /\ Len(attr) = num_attributes
        /\ Len(steps) = num_attributes
        /\ \A k \in 1..num_attributes :
            LET c == CursorBefore(k)
                start == FirstAtOrAfter(left[k], page, c) + Len(left[k])
                stop == FirstAtOrAfter(right[k], page, start)
            IN  /\ c = (IF k = 1 THEN 0 ELSE CursorAfter(k - 1))
                /\ steps[k].P = SubSeq(page, c + 1, Len(page))
                /\ attr[k] = SubSeq(page, start + 1, stop)
                /\ CursorAfter(k) = stop
                /\ c <= start /\ start <= stop

C10_Witness ==
    /\ pc = "built" /\ ran /\ AllFound
    /\ num_attributes > 1
    /\ \A k \in 1..num_attributes : left[k] # <<>>
    /\ right[1] # <<>> /\ attr[1] # <<>>
    /\ CursorBefore(num_attributes) > 0

=============================================================================
